---------------------------- MODULE Spec2Model ----------------------------
(***************************************************************************)
(* State-machine model of alerts.js (Streamlabs custom subscription alert):*)
(* the configuration accessor, the numeric clamp parser, the theme, shape  *)
(* and effects translators, the avatar image fallback, the alert sound,    *)
(* the intro timeline and the screen-reader announcement, driven by the    *)
(* initialization pass init() / AlertWidget.reinit().                      *)
(*                                                                         *)
(* Representation.                                                         *)
(*  - A JavaScript string is a sequence of one-character strings, so that  *)
(*    trim(), parseFloat() and includes() are computed character by        *)
(*    character.                                                           *)
(*  - A JavaScript value is a tagged record: Undefined, Null, Str(s),      *)
(*    Num(m, e) (the decimal m / 10^e, kept normalised), Bool(b), NaN,     *)
(*    Inf(sign).                                                           *)
(*  - Style variables and data attributes hold strings: a value written   *)
(*    to them is converted by JSString, as setProperty and dataset do.     *)
(***************************************************************************)
EXTENDS Integers, Sequences, FiniteSets, TLC

(***************************************************************************)
(* Bounds of the model.                                                    *)
(***************************************************************************)
\* longest generated configuration string
MaxLen == 2
\* most calls of init() / reinit() in one behaviour
MaxPasses == 2
\* most load-failure signals delivered to the avatar element
MaxErrors == 2
\* steps of the clock
MaxTicks == 3

(***************************************************************************)
(* JavaScript values                                                       *)
(***************************************************************************)
Undefined == [t |-> "undefined"]
Null      == [t |-> "null"]
NaN       == [t |-> "nan"]
Str(s)    == [t |-> "str", s |-> s]
Bool(b)   == [t |-> "bool", b |-> b]
Inf(sg)   == [t |-> "inf", sg |-> sg]

RECURSIVE Pow10(_)
Pow10(n) == IF n = 0 THEN 1 ELSE 10 * Pow10(n - 1)

\* the decimal m / 10^e without trailing fractional zeros
RECURSIVE Num(_, _)
Num(m, e) ==
  IF e > 0 /\ m % 10 = 0 THEN Num(m \div 10, e - 1)
  ELSE [t |-> "num", m |-> m, e |-> e]

\* a < b on Num and Inf values
Less(a, b) ==
  CASE a.t = "inf" /\ b.t = "inf" -> a.sg < b.sg
    [] a.t = "inf" -> a.sg < 0
    [] b.t = "inf" -> b.sg > 0
    [] OTHER -> a.m * Pow10(b.e) < b.m * Pow10(a.e)

MathMax(a, b) == IF Less(a, b) THEN b ELSE a
MathMin(a, b) == IF Less(b, a) THEN b ELSE a

\* a - k and a / 2 on Num values, k an integer
Minus(a, k) == Num(a.m - k * Pow10(a.e), a.e)
Half(a)     == Num(a.m * 5, a.e + 1)

(***************************************************************************)
(* Strings                                                                 *)
(***************************************************************************)
WS == " "
Digits == <<"0", "1", "2", "3", "4", "5", "6", "7", "8", "9">>
IsDigit(c) == \E i \in 1..10 : Digits[i] = c
DigitVal(c) == (CHOOSE i \in 1..10 : Digits[i] = c) - 1

RECURSIVE TrimStart(_)
TrimStart(s) ==
  IF s # <<>> /\ Head(s) = WS THEN TrimStart(Tail(s)) ELSE s

RECURSIVE TrimEnd(_)
TrimEnd(s) ==
  IF s # <<>> /\ s[Len(s)] = WS THEN TrimEnd(SubSeq(s, 1, Len(s) - 1)) ELSE s

\* String.prototype.trim
Trim(s) == TrimEnd(TrimStart(s))

\* String.prototype.includes for a one-character needle
Includes(s, c) == \E i \in 1..Len(s) : s[i] = c

StartsWith(s, p) == Len(s) >= Len(p) /\ SubSeq(s, 1, Len(p)) = p

\* the longest prefix of s made of digits
RECURSIVE DigitRun(_)
DigitRun(s) ==
  IF s # <<>> /\ IsDigit(Head(s)) THEN <<Head(s)>> \o DigitRun(Tail(s)) ELSE <<>>

RECURSIVE DigitsValue(_)
DigitsValue(ds) ==
  IF ds = <<>> THEN 0
  ELSE 10 * DigitsValue(SubSeq(ds, 1, Len(ds) - 1)) + DigitVal(ds[Len(ds)])

Drop(s, n) == SubSeq(s, n + 1, Len(s))

StrInfinity == <<"I", "n", "f", "i", "n", "i", "t", "y">>

\* m * 10^(-e) as a Num, for an exponent of either sign
MakeNum(m, e) == IF e >= 0 THEN Num(m, e) ELSE Num(m * Pow10(-e), 0)

\* the value of an ExponentPart's [+-]digits, 0 when no digit follows
SignedDigits(s) ==
  IF s # <<>> /\ Head(s) = "-" THEN -DigitsValue(DigitRun(Tail(s)))
  ELSE IF s # <<>> /\ Head(s) = "+" THEN DigitsValue(DigitRun(Tail(s)))
  ELSE DigitsValue(DigitRun(s))

\* the exponent that starts s, 0 when s starts with none
ExponentOf(s) ==
  IF s # <<>> /\ Head(s) \in {"e", "E"} THEN SignedDigits(Tail(s)) ELSE 0

\* integer digits ip, fraction digits fp, then the rest of the string
ParseExponent(ip, fp, rest, sgn) ==
  IF ip = <<>> /\ fp = <<>> THEN NaN
  ELSE MakeNum(sgn * DigitsValue(ip \o fp), Len(fp) - ExponentOf(rest))

\* integer digits ip, then the rest of the string
ParseFraction(ip, rest, sgn) ==
  IF rest # <<>> /\ Head(rest) = "."
  THEN ParseExponent(ip, DigitRun(Tail(rest)),
                     Drop(rest, 1 + Len(DigitRun(Tail(rest)))), sgn)
  ELSE ParseExponent(ip, <<>>, rest, sgn)

ParseUnsigned(s, sgn) ==
  IF StartsWith(s, StrInfinity) THEN Inf(sgn)
  ELSE ParseFraction(DigitRun(s), Drop(s, Len(DigitRun(s))), sgn)

ParseSigned(s) ==
  IF s # <<>> /\ Head(s) = "-" THEN ParseUnsigned(Tail(s), -1)
  ELSE IF s # <<>> /\ Head(s) = "+" THEN ParseUnsigned(Tail(s), 1)
  ELSE ParseUnsigned(s, 1)

\* parseFloat on a string: leading white space, sign, StrDecimalLiteral
\* (Infinity | digits [. digits] | . digits, then an optional exponent);
\* the longest prefix that parses counts, NaN when there is none.
ParseFloatStr(s) == ParseSigned(TrimStart(s))

\* parseFloat(value): the argument is converted to a string first. A finite
\* number prints as a decimal that parses back to itself; undefined, null,
\* true, false and NaN print as words that do not parse.
ParseFloat(v) ==
  CASE v.t = "str" -> ParseFloatStr(v.s)
    [] v.t = "num" -> v
    [] v.t = "inf" -> v
    [] OTHER -> NaN

(***************************************************************************)
(* Utility functions: getField, parseNumber                                *)
(***************************************************************************)
\* getField without the trim of string values
GetFieldNoTrim(flds, key, fallback) ==
  LET val == flds[key]
  IN  IF val = Undefined \/ val = Null \/ val = Str(<<>>) THEN fallback
      ELSE val

getField(flds, key, fallback) ==
  LET val == flds[key]
  IN  IF val = Undefined \/ val = Null \/ val = Str(<<>>) THEN fallback
      ELSE IF val.t = "str"
           THEN LET trimmed == Trim(val.s)
                IN  IF trimmed = <<>> THEN fallback ELSE Str(trimmed)
           ELSE val

\* parseNumber that clamps from below only
ParseNumberNoMax(value, fallback, min, max) ==
  LET num == ParseFloat(value)
  IN  IF num = NaN THEN fallback ELSE MathMax(num, min)

parseNumber(value, fallback, min, max) ==
  LET num == ParseFloat(value)
  IN  IF num = NaN THEN fallback ELSE MathMin(MathMax(num, min), max)

(***************************************************************************)
(* Conversion to string, as a template literal, dataset and setProperty do *)
(***************************************************************************)
RECURSIVE NatToDigits(_)
NatToDigits(n) ==
  IF n < 10 THEN <<Digits[n + 1]>>
  ELSE NatToDigits(n \div 10) \o <<Digits[(n % 10) + 1]>>

RECURSIVE PadLeft(_, _)
PadLeft(ds, n) == IF Len(ds) >= n THEN ds ELSE PadLeft(<<"0">> \o ds, n)

\* Number.prototype.toString for the decimal m / 10^e in plain notation
NumToString(n) ==
  LET abs == IF n.m < 0 THEN -n.m ELSE n.m
      ds  == PadLeft(NatToDigits(abs), n.e + 1)
      ip  == SubSeq(ds, 1, Len(ds) - n.e)
      fp  == SubSeq(ds, Len(ds) - n.e + 1, Len(ds))
  IN  (IF n.m < 0 THEN <<"-">> ELSE <<>>)
      \o ip \o (IF n.e > 0 THEN <<".">> \o fp ELSE <<>>)

JSString(v) ==
  CASE v.t = "str" -> v.s
    [] v.t = "num" -> NumToString(v)
    [] v.t = "bool" -> IF v.b THEN <<"t", "r", "u", "e">>
                       ELSE <<"f", "a", "l", "s", "e">>
    [] v.t = "null" -> <<"n", "u", "l", "l">>
    [] v.t = "undefined" -> <<"u", "n", "d", "e", "f", "i", "n", "e", "d">>
    [] v.t = "nan" -> <<"N", "a", "N">>
    [] v.t = "inf" -> (IF v.sg < 0 THEN <<"-">> ELSE <<>>) \o StrInfinity

\* JavaScript truthiness
Truthy(v) ==
  CASE v.t = "str" -> v.s # <<>>
    [] v.t = "num" -> v.m # 0
    [] v.t = "bool" -> v.b
    [] v.t = "inf" -> TRUE
    [] v.t = "object" -> TRUE
    [] OTHER -> FALSE

(***************************************************************************)
(* Default configuration values                                            *)
(***************************************************************************)
DEFAULTS == [
  alertBoxShape |-> Str(<<"r", "o", "u", "n", "d", "e", "d", "-", "r", "e", "c", "t", "a", "n", "g", "l", "e">>),
  shapePadding |-> Num(16, 0),
  maintainAspectRatio |-> Str(<<"n", "o", "n", "e">>),
  containerWidth |-> Num(1000, 0),
  containerHeight |-> Num(180, 0),
  containerBorderRadius |-> Num(42, 0),
  containerOutlineWidth |-> Num(8, 0),
  scalingMode |-> Str(<<"f", "i", "x", "e", "d">>),
  maxScale |-> Num(15, 1),
  minScale |-> Num(5, 1),
  containerGradient1 |-> Str(<<"#", "7", "d", "1", "d", "f", "f">>),
  containerGradient2 |-> Str(<<"#", "a", "8", "2", "b", "f", "f">>),
  containerGradient3 |-> Str(<<"#", "5", "a", "1", "1", "c", "9">>),
  containerGradient4 |-> Str(<<"#", "3", "f", "0", "a", "9", "b">>),
  gradientAngle |-> Num(135, 0),
  containerOpacity |-> Num(1, 0),
  backgroundBlur |-> Num(0, 0),
  avatarSize |-> Num(150, 0),
  avatarRingWidth |-> Num(10, 0),
  avatarShape |-> Str(<<"c", "i", "r", "c", "l", "e">>),
  avatarBorderColor |-> Str(<<"#", "f", "f", "f", "f", "f", "f">>),
  avatarBorderWidth |-> Num(4, 0),
  circleGradient1 |-> Str(<<"#", "f", "f", "9", "a", "1", "f">>),
  circleGradient2 |-> Str(<<"#", "f", "f", "5", "d", "f", "2">>),
  circleGradient3 |-> Str(<<"#", "7", "c", "2", "d", "f", "f">>),
  rotationAngle |-> Num(25, 0),
  rotationSpeed |-> Num(6, 0),
  ringSpinSpeed |-> Num(6, 0),
  gradientAnimationSpeed |-> Num(8, 0),
  introDuration |-> Num(800, 0),
  introEasing |-> Str(<<"e", "a", "s", "e", "O", "u", "t", "E", "x", "p", "o">>),
  enableSway |-> Str(<<"t", "r", "u", "e">>),
  enableRingSpin |-> Str(<<"t", "r", "u", "e">>),
  enableGradientAnimation |-> Str(<<"t", "r", "u", "e">>),
  textScale |-> Num(1, 0),
  textColorMain |-> Str(<<"#", "0", "c", "0", "0", "1", "8">>),
  textColorMeta |-> Str(<<"#", "f", "4", "d", "8", "f", "f">>),
  textShadowColor |-> Str(<<"r", "g", "b", "a", "(", "0", ",", " ", "0", ",", " ", "0", ",", " ", "0", ".", "3", "5", ")">>),
  textShadowBlur |-> Num(4, 0),
  textCase |-> Str(<<"n", "o", "n", "e">>),
  fontChoice |-> Str(<<"U", "b", "u", "n", "t", "u">>),
  fontWeightPrimary |-> Num(900, 0),
  fontWeightMeta |-> Num(700, 0),
  letterSpacing |-> Num(-2, 2),
  dropShadowEnabled |-> Str(<<"t", "r", "u", "e">>),
  dropShadowOffsetX |-> Num(0, 0),
  dropShadowOffsetY |-> Num(12, 0),
  dropShadowBlur |-> Num(24, 0),
  dropShadowColor |-> Str(<<"#", "0", "0", "0", "0", "0", "0">>),
  dropShadowOpacity |-> Num(4, 1),
  glowEnabled |-> Str(<<"f", "a", "l", "s", "e">>),
  glowColor |-> Str(<<"#", "f", "f", "f", "f", "f", "f">>),
  glowIntensity |-> Num(20, 0),
  layoutDirection |-> Str(<<"r", "o", "w">>),
  contentAlignment |-> Str(<<"c", "e", "n", "t", "e", "r">>),
  avatarPosition |-> Str(<<"c", "e", "n", "t", "e", "r">>),
  contentGap |-> Num(24, 0),
  fallbackImage |-> Str(<<"h", "t", "t", "p", "s", ":", "/", "/", "i", ".", "i", "m", "g", "u", "r", ".", "c", "o", "m", "/", "y", "1", "k", "R", "G", "Q", "p", ".", "g", "i", "f">>),
  soundVolume |-> Num(8, 1)
]

\* DEFAULTS[key]: undefined for a key the table does not hold
DefaultOf(key) == IF key \in DOMAIN DEFAULTS THEN DEFAULTS[key] ELSE Undefined

\* the keys of window.customFields the model holds
Keys == DOMAIN DEFAULTS \cup {"alertSound"}

(***************************************************************************)
(* ConfigManager                                                           *)
(***************************************************************************)
\* ConfigManager.get with `fallback || DEFAULTS[key]`
ConfigManagerGetOr(flds, key, fallback) ==
  getField(flds, key, IF Truthy(fallback) THEN fallback ELSE DefaultOf(key))

\* ConfigManager.get that leaves the Default Table out
ConfigManagerGetNoDefaults(flds, key, fallback) == getField(flds, key, fallback)

\* ConfigManager.get(key, fallback); a call without the second argument
\* passes Undefined
ConfigManager_get(flds, key, fallback) ==
  getField(flds, key,
           IF fallback = Undefined \/ fallback = Null
           THEN DefaultOf(key) ELSE fallback)

\* ConfigManager.get(key)
Get(flds, key) == ConfigManager_get(flds, key, Undefined)

(***************************************************************************)
(* State                                                                   *)
(***************************************************************************)
VARIABLES
  customFields, \* window.customFields, supplied by the host
  doc,          \* the document: which elements exist, anime.js, data-fallback
  fields,       \* ConfigManager.fields
  dom,          \* style variables of the root, data attributes and classes,
                \* and what the latest pass wrote (written, attrWrites)
  img,          \* ImageRenderer and the #alert-avatar element
  audio,        \* AudioManager and the #alert-sound element
  timeline,     \* what the latest playIntro() handed to anime.js
  sr,           \* AccessibilityManager and the #sr-announcement element
  passes,       \* calls of init() so far
  errors,       \* load-failure signals delivered so far
  outcome,      \* how the latest pass ended: "none", "complete", "error"
  call,         \* arguments of a direct ConfigManager.get / getField call
  ret,          \* its result
  now           \* the clock setTimeout counts by, in milliseconds

vars == <<customFields, doc, fields, dom, img, audio, timeline, sr, passes,
          errors, outcome, call, ret, now>>

VarNames == {
  "container-width", "container-height", "container-radius-outer",
  "container-radius-inner", "outline-width",
  "container-1", "container-2", "container-3", "container-4",
  "avatar-size", "avatar-ring-offset", "avatar-ring-width",
  "ring-1", "ring-2", "ring-3",
  "sway-angle", "sway-duration", "ring-spin-duration",
  "text-scale", "text-transform", "font-family", "text-primary",
  "text-secondary", "text-shadow-color", "text-shadow-blur",
  "font-weight-primary", "font-weight-meta", "letter-spacing",
  "shape-padding",
  "drop-shadow-enabled", "drop-shadow-x", "drop-shadow-y", "drop-shadow-blur",
  "drop-shadow-color", "drop-shadow-opacity",
  "glow-enabled", "glow-color", "glow-intensity", "gradient-duration"}

\* setVar(name, value): setProperty stores the value as a string
setVar(d, name, value) ==
  [d EXCEPT !.vars[name] = Str(JSString(value)),
            !.written = @ \cup {name}]

\* the setVar calls of one function body, in order
RECURSIVE SetVars(_, _)
SetVars(d, writes) ==
  IF writes = <<>> THEN d
  ELSE SetVars(setVar(d, Head(writes)[1], Head(writes)[2]), Tail(writes))

\* the template literal `${n}${unit}`
Tpl(n, unit) == Str(JSString(n) \o unit)
Px(n)  == Tpl(n, <<"p", "x">>)
Sec(n) == Tpl(n, <<"s">>)

StrTrue  == Str(<<"t", "r", "u", "e">>)
StrFalse == Str(<<"f", "a", "l", "s", "e">>)
StrNone  == Str(<<"n", "o", "n", "e">>)

\* classList.toggle(token) without the force argument
ToggleFlip(classes, token, force) ==
  IF token \in classes THEN classes \ {token} ELSE classes \cup {token}

\* classList.toggle(token, force)
Toggle(classes, token, force) ==
  IF force THEN classes \cup {token} ELSE classes \ {token}

(***************************************************************************)
(* ThemeManager                                                            *)
(***************************************************************************)
ThemeManager_applyContainerSize(d, f) ==
  LET width == parseNumber(Get(f, "containerWidth"),
                           Num(1000, 0), Num(300, 0), Num(1600, 0))
      height == parseNumber(Get(f, "containerHeight"),
                            Num(180, 0), Num(80, 0), Num(400, 0))
      borderRadius == parseNumber(Get(f, "containerBorderRadius"),
                                  Num(42, 0), Num(0, 0), Num(100, 0))
      outlineWidth == parseNumber(Get(f, "containerOutlineWidth"),
                                  Num(8, 0), Num(1, 0), Num(30, 0))
  IN  SetVars(d, <<
        <<"container-width", Px(width)>>,
        <<"container-height", Px(height)>>,
        <<"container-radius-outer", Px(borderRadius)>>,
        <<"container-radius-inner", Px(MathMax(Num(0, 0), Minus(borderRadius, 8)))>>,
        <<"outline-width", Px(outlineWidth)>> >>)

ThemeManager_applyContainerGradients(d, f) ==
  SetVars(d, <<
    <<"container-1", Get(f, "containerGradient1")>>,
    <<"container-2", Get(f, "containerGradient2")>>,
    <<"container-3", Get(f, "containerGradient3")>>,
    <<"container-4", Get(f, "containerGradient4")>> >>)

ThemeManager_applyAvatarSize(d, f) ==
  LET size == parseNumber(Get(f, "avatarSize"),
                          Num(150, 0), Num(60, 0), Num(300, 0))
      ringWidth == parseNumber(Get(f, "avatarRingWidth"),
                               Num(10, 0), Num(2, 0), Num(30, 0))
  IN  SetVars(d, <<
        <<"avatar-size", Px(size)>>,
        <<"avatar-ring-offset", Px(ringWidth)>>,
        <<"avatar-ring-width", Px(MathMax(Num(2, 0), Half(ringWidth)))>> >>)

ThemeManager_applyRingGradients(d, f) ==
  SetVars(d, <<
    <<"ring-1", Get(f, "circleGradient1")>>,
    <<"ring-2", Get(f, "circleGradient2")>>,
    <<"ring-3", Get(f, "circleGradient3")>> >>)

ThemeManager_applyAnimation(d, f) ==
  LET angle == parseNumber(Get(f, "rotationAngle"),
                           Num(25, 0), Num(0, 0), Num(45, 0))
      speed == parseNumber(Get(f, "rotationSpeed"),
                           Num(6, 0), Num(1, 0), Num(20, 0))
      ringSpeed == parseNumber(Get(f, "ringSpinSpeed"),
                               Num(6, 0), Num(1, 0), Num(20, 0))
  IN  SetVars(d, <<
        <<"sway-angle", Tpl(angle, <<"d", "e", "g">>)>>,
        <<"sway-duration", Sec(speed)>>,
        <<"ring-spin-duration", Sec(ringSpeed)>> >>)

ThemeManager_applyTypography(d, f) ==
  LET scale == parseNumber(Get(f, "textScale"),
                           Num(1, 0), Num(5, 1), Num(2, 0))
      textCase == ConfigManager_get(f, "textCase", StrNone)
      font == ConfigManager_get(f, "fontChoice", Str(<<"U", "b", "u", "n", "t", "u">>))
      shadowBlur == parseNumber(Get(f, "textShadowBlur"),
                                Num(4, 0), Num(0, 0), Num(30, 0))
      fontWeightPrimary == ConfigManager_get(f, "fontWeightPrimary", Num(900, 0))
      fontWeightMeta == ConfigManager_get(f, "fontWeightMeta", Num(700, 0))
      letterSpacing == parseNumber(Get(f, "letterSpacing"),
                                   Num(-2, 2), Num(-1, 1), Num(3, 1))
  IN  SetVars(d, <<
        <<"text-scale", scale>>,
        <<"text-transform", textCase>>,
        <<"font-family",
          Str(<<"'">> \o JSString(font) \o
              <<"'", ",", " ", "'", "U", "b", "u", "n", "t", "u", "'", ",", " ", "s", "y", "s", "t", "e", "m", "-", "u", "i", ",", " ", "s", "a", "n", "s", "-", "s", "e", "r", "i", "f">>)>>,
        <<"text-primary", Get(f, "textColorMain")>>,
        <<"text-secondary", Get(f, "textColorMeta")>>,
        <<"text-shadow-color", Get(f, "textShadowColor")>>,
        <<"text-shadow-blur", Px(shadowBlur)>>,
        <<"font-weight-primary", fontWeightPrimary>>,
        <<"font-weight-meta", fontWeightMeta>>,
        <<"letter-spacing", Tpl(letterSpacing, <<"e", "m">>)>> >>)

ThemeManager_apply(d, f) ==
  ThemeManager_applyTypography(
    ThemeManager_applyAnimation(
      ThemeManager_applyRingGradients(
        ThemeManager_applyAvatarSize(
          ThemeManager_applyContainerGradients(
            ThemeManager_applyContainerSize(d, f), f), f), f), f), f)

(***************************************************************************)
(* ShapeManager                                                            *)
(***************************************************************************)
\* dataset.x = value stores the value as a string
SetData(data, name, value) == [data EXCEPT ![name] = Str(JSString(value))]
\* a delete that leaves the attribute in place
KeepData(data, name) == data

\* delete dataset.x
DeleteData(data, name) == [data EXCEPT ![name] = Undefined]

\* the data attributes ShapeManager.apply sets once it holds the frame
ShapeAttributes(d, f) ==
  LET shape == ConfigManager_get(f, "alertBoxShape",
                 Str(<<"r", "o", "u", "n", "d", "e", "d", "-", "r", "e", "c", "t", "a", "n", "g", "l", "e">>))
      aspectRatio == ConfigManager_get(f, "maintainAspectRatio", StrNone)
      avatarShape == ConfigManager_get(f, "avatarShape",
                       Str(<<"c", "i", "r", "c", "l", "e">>))
      d1 == [d EXCEPT !.frameData = SetData(@, "shape", shape),
                      !.attrWrites = @ \cup {"shape"}]
      d2 == [d1 EXCEPT !.frameData =
                         IF aspectRatio # StrNone
                         THEN SetData(@, "aspect", aspectRatio)
                         ELSE DeleteData(@, "aspect"),
                       !.attrWrites = @ \cup {"aspect"}]
  IN  IF doc.avatarWrapper
      THEN [d2 EXCEPT !.wrapperData = SetData(@, "avatarShape", avatarShape),
                      !.attrWrites = @ \cup {"avatarShape"}]
      ELSE d2

\* the shape padding as ShapeManager.apply writes it
ShapePadding(d, f) ==
  setVar(d, "shape-padding",
         Px(parseNumber(Get(f, "shapePadding"), Num(16, 0), Num(0, 0), Num(60, 0))))

\* ShapeManager.apply that looks for the frame only to set its attributes
ShapeManagerPaddingAnyway(d, f) ==
  ShapePadding(IF ~doc.frame THEN d ELSE ShapeAttributes(d, f), f)

ShapeManager_apply(d, f) ==
  IF ~doc.frame THEN d
  ELSE ShapePadding(ShapeAttributes(d, f), f)

(***************************************************************************)
(* EffectsManager                                                          *)
(***************************************************************************)
EffectsManager_applyDropShadow(d, f) ==
  LET enabled == ConfigManager_get(f, "dropShadowEnabled", StrTrue) = StrTrue
      offsetX == parseNumber(Get(f, "dropShadowOffsetX"),
                             Num(0, 0), Num(-50, 0), Num(50, 0))
      offsetY == parseNumber(Get(f, "dropShadowOffsetY"),
                             Num(12, 0), Num(0, 0), Num(50, 0))
      blur == parseNumber(Get(f, "dropShadowBlur"),
                          Num(24, 0), Num(0, 0), Num(80, 0))
      color == ConfigManager_get(f, "dropShadowColor", Str(<<"#", "0", "0", "0", "0", "0", "0">>))
      opacity == parseNumber(Get(f, "dropShadowOpacity"),
                             Num(4, 1), Num(0, 0), Num(1, 0))
  IN  SetVars(d, <<
        <<"drop-shadow-enabled", Str(IF enabled THEN <<"1">> ELSE <<"0">>)>>,
        <<"drop-shadow-x", Px(offsetX)>>,
        <<"drop-shadow-y", Px(offsetY)>>,
        <<"drop-shadow-blur", Px(blur)>>,
        <<"drop-shadow-color", color>>,
        <<"drop-shadow-opacity", opacity>> >>)

EffectsManager_applyGlow(d, f) ==
  LET enabled == ConfigManager_get(f, "glowEnabled", StrFalse) = StrTrue
      color == ConfigManager_get(f, "glowColor", Str(<<"#", "f", "f", "f", "f", "f", "f">>))
      intensity == parseNumber(Get(f, "glowIntensity"),
                               Num(20, 0), Num(5, 0), Num(60, 0))
      d1 == SetVars(d, <<
              <<"glow-enabled", Str(IF enabled THEN <<"1">> ELSE <<"0">>)>>,
              <<"glow-color", color>>,
              <<"glow-intensity", Px(intensity)>> >>)
  IN  IF doc.frame
      THEN [d1 EXCEPT !.frameClasses = Toggle(@, "alert-frame--glow", enabled)]
      ELSE d1

\* applyAnimationToggles with each class following its flag, not negating it
AnimationTogglesNotNegated(d, f) ==
  LET swayEnabled == ConfigManager_get(f, "enableSway", StrTrue) = StrTrue
      ringSpinEnabled == ConfigManager_get(f, "enableRingSpin", StrTrue) = StrTrue
      gradientEnabled ==
        ConfigManager_get(f, "enableGradientAnimation", StrTrue) = StrTrue
      gradientSpeed == parseNumber(Get(f, "gradientAnimationSpeed"),
                                   Num(8, 0), Num(2, 0), Num(20, 0))
      d1 == IF doc.frame
            THEN [d EXCEPT !.frameClasses =
                             Toggle(@, "alert-frame--no-sway", swayEnabled)]
            ELSE d
      d2 == IF doc.ring
            THEN [d1 EXCEPT !.ringClasses =
                              Toggle(@, "alert-avatar-ring--no-spin", ringSpinEnabled)]
            ELSE d1
      d3 == IF doc.frame
            THEN [d2 EXCEPT !.frameClasses =
                              Toggle(@, "alert-frame--no-gradient-animation",
                                     gradientEnabled)]
            ELSE d2
  IN  setVar(d3, "gradient-duration", Sec(gradientSpeed))

EffectsManager_applyAnimationToggles(d, f) ==
  LET swayEnabled == ConfigManager_get(f, "enableSway", StrTrue) = StrTrue
      ringSpinEnabled == ConfigManager_get(f, "enableRingSpin", StrTrue) = StrTrue
      gradientEnabled ==
        ConfigManager_get(f, "enableGradientAnimation", StrTrue) = StrTrue
      gradientSpeed == parseNumber(Get(f, "gradientAnimationSpeed"),
                                   Num(8, 0), Num(2, 0), Num(20, 0))
      d1 == IF doc.frame
            THEN [d EXCEPT !.frameClasses =
                             Toggle(@, "alert-frame--no-sway", ~swayEnabled)]
            ELSE d
      d2 == IF doc.ring
            THEN [d1 EXCEPT !.ringClasses =
                              Toggle(@, "alert-avatar-ring--no-spin", ~ringSpinEnabled)]
            ELSE d1
      d3 == IF doc.frame
            THEN [d2 EXCEPT !.frameClasses =
                              Toggle(@, "alert-frame--no-gradient-animation",
                                     ~gradientEnabled)]
            ELSE d2
  IN  setVar(d3, "gradient-duration", Sec(gradientSpeed))

EffectsManager_apply(d, f) ==
  EffectsManager_applyAnimationToggles(
    EffectsManager_applyGlow(
      EffectsManager_applyDropShadow(d, f), f), f)

(***************************************************************************)
(* ImageRenderer                                                           *)
(***************************************************************************)
\* the URL of the document, against which relative URLs resolve
DocumentBase == <<"h", "t", "t", "p", "s", ":", "/", "/", "a", "l", "e", "r", "t", ".", "e", "x", "a", "m", "p", "l", "e", "/">>

HasScheme(s) == \E i \in 1..(Len(s) - 2) : SubSeq(s, i, i + 2) = <<":", "/", "/">>

\* the src property of an image: its src attribute resolved to an absolute URL
ResolveURL(s) == IF s = <<>> \/ HasScheme(s) THEN s ELSE DocumentBase \o s

ImageRenderer_init(i) ==
  IF ~doc.avatar THEN [i EXCEPT !.element = FALSE]
  ELSE [i EXCEPT !.element = TRUE,
                 !.fallbackSrc = IF Truthy(doc.dataFallback)
                                 THEN doc.dataFallback.s
                                 ELSE DEFAULTS.fallbackImage.s,
                 !.handlers = @ + 1]

ImageRenderer_handleError(i) ==
  IF ~i.element THEN i
  ELSE LET currentSrc == ResolveURL(i.src)
       IN  IF currentSrc # i.fallbackSrc
           THEN [i EXCEPT !.src = i.fallbackSrc, !.srcWrites = @ + 1]
           ELSE i

\* one error event: every registered listener runs handleError, in order
RECURSIVE DispatchError(_, _)
DispatchError(i, n) ==
  IF n = 0 THEN i ELSE DispatchError(ImageRenderer_handleError(i), n - 1)

(***************************************************************************)
(* AudioManager                                                            *)
(***************************************************************************)
AudioManager_init(a) == [a EXCEPT !.element = doc.sound]

\* isTokenString(str) for a string or a falsy value
AudioManager_isTokenString(str) ==
  ~Truthy(str) \/ Includes(str.s, "{") \/ Includes(str.s, "}")

\* str.includes is not a function: a truthy value that is no string
IsTokenStringThrows(str) == Truthy(str) /\ str.t # "str"

\* AudioManager.play(): the element afterwards, and whether a TypeError left it
AudioManager_play(a, f) ==
  IF ~a.element THEN [audio |-> a, threw |-> FALSE]
  ELSE
    LET soundSrc == ConfigManager_get(f, "alertSound", Str(<<>>))
        volume == parseNumber(Get(f, "soundVolume"),
                              Num(8, 1), Num(0, 0), Num(1, 0))
    IN  IF ~Truthy(soundSrc) THEN [audio |-> a, threw |-> FALSE]
        ELSE IF IsTokenStringThrows(soundSrc) THEN [audio |-> a, threw |-> TRUE]
        ELSE IF AudioManager_isTokenString(soundSrc)
             THEN [audio |-> a, threw |-> FALSE]
        ELSE [audio |-> [a EXCEPT !.src = JSString(soundSrc),
                                  !.volume = volume,
                                  !.currentTime = 0,
                                  !.plays = @ + 1,
                                  !.pending = @ + 1,
                                  !.ops = @ \o <<"src", "volume", "currentTime", "play">>],
              threw |-> FALSE]

(***************************************************************************)
(* AnimationController                                                     *)
(***************************************************************************)
NoOffset == [op |-> "none", n |-> 0]
\* the timeline offset "-=400"
Minus400 == [op |-> "-=", n |-> 400]

\* anime.js timeline.add(params, offset): a child without its own duration
\* takes the timeline's; the offset is absolute, relative to the timeline's
\* duration so far ("+=", "-="), or that duration when absent; the
\* timeline's duration becomes the latest end of its children
TimelineAdd(tl, params, offset) ==
  LET duration == IF "duration" \in DOMAIN params
                  THEN params.duration ELSE tl.defaults.duration
      start == CASE offset.op = "none" -> tl.duration
                 [] offset.op = "-=" -> tl.duration - offset.n
                 [] offset.op = "+=" -> tl.duration + offset.n
                 [] OTHER -> offset.n
      child == [params |-> params, start |-> start, duration |-> duration]
  IN  [tl EXCEPT !.children = Append(@, child),
                 !.duration = IF start + duration > @ THEN start + duration ELSE @]

\* anime.timeline(defaults)
NewTimeline(defaults) == [defaults |-> defaults, duration |-> 0, children |-> <<>>]

\* playIntro with the right zone added before the avatar
IntroTimelineZonesFirst ==
  LET t0 == NewTimeline([easing |-> "easeOutExpo", duration |-> 800])
      t1 == TimelineAdd(t0,
              [targets |-> "frame", opacity |-> <<0, 100>>, scale |-> <<90, 100>>,
               duration |-> 600], NoOffset)
      t2 == TimelineAdd(t1,
              [targets |-> "leftZone", opacity |-> <<0, 100>>,
               translateX |-> <<-60, 0>>, scale |-> <<95, 100>>], Minus400)
      t3 == TimelineAdd(t2,
              [targets |-> "rightZone", opacity |-> <<0, 100>>,
               translateX |-> <<60, 0>>, scale |-> <<95, 100>>], Minus400)
  IN  TimelineAdd(t3,
        [targets |-> "avatarWrapper", opacity |-> <<0, 100>>,
         scale |-> <<60, 100>>, rotateZ |-> <<-8, 0>>], Minus400)

\* the timeline playIntro builds; opacity and scale in hundredths
IntroTimeline ==
  LET t0 == NewTimeline([easing |-> "easeOutExpo", duration |-> 800])
      t1 == TimelineAdd(t0,
              [targets |-> "frame", opacity |-> <<0, 100>>, scale |-> <<90, 100>>,
               duration |-> 600], NoOffset)
      t2 == TimelineAdd(t1,
              [targets |-> "leftZone", opacity |-> <<0, 100>>,
               translateX |-> <<-60, 0>>, scale |-> <<95, 100>>], Minus400)
      t3 == TimelineAdd(t2,
              [targets |-> "avatarWrapper", opacity |-> <<0, 100>>,
               scale |-> <<60, 100>>, rotateZ |-> <<-8, 0>>], Minus400)
  IN  TimelineAdd(t3,
        [targets |-> "rightZone", opacity |-> <<0, 100>>,
         translateX |-> <<60, 0>>, scale |-> <<95, 100>>], Minus400)

\* [frame, leftZone, rightZone, avatarWrapper].filter(Boolean)
IntroTargets ==
  {e \in {"frame", "leftZone", "rightZone", "avatarWrapper"} : doc[e]}

\* playIntro(): what anime.js holds afterwards (tl unchanged when skipped)
AnimationController_playIntro(tl) ==
  IF ~doc.anime THEN tl
  ELSE IF IntroTargets = {} THEN tl
  ELSE [hidden |-> IntroTargets, runs |-> tl.runs + 1, stages |-> IntroTimeline.children]

(***************************************************************************)
(* AccessibilityManager                                                    *)
(***************************************************************************)
AccessibilityManager_init(s) == [s EXCEPT !.element = doc.sr]

\* the delay announce() passes to setTimeout
AnnounceDelay == 100

\* announce(message): clears the text and sets a timeout due 100ms from now
AccessibilityManager_announce(s, message) ==
  IF ~s.element THEN s
  ELSE [s EXCEPT !.text = "", !.clearedAt = now,
                 !.timers = Append(@, [message |-> message,
                                       due |-> now + AnnounceDelay])]

(***************************************************************************)
(* Main initialization: init(), also exported as AlertWidget.reinit        *)
(***************************************************************************)
EmptyFields == [k \in Keys |-> Undefined]

\* window.customFields || {}
ConfigManager_init == IF Truthy(customFields) THEN customFields.map ELSE EmptyFields

Announcement == "New subscription alert"

\* the aspect attribute and the classes a pass found set and left unset
Removed(before, after) ==
  (IF before.frameData.aspect # Undefined /\ after.frameData.aspect = Undefined
   THEN {"aspect"} ELSE {})
  \cup (before.frameClasses \ after.frameClasses)
  \cup (before.ringClasses \ after.ringClasses)

\* One call of init(). The translators write first; AudioManager.play() may
\* throw, and the catch then skips the intro animation and the announcement.
RunInit ==
  /\ passes < MaxPasses
  /\ LET f  == ConfigManager_init
         i1 == ImageRenderer_init(img)
         a1 == AudioManager_init(audio)
         s1 == AccessibilityManager_init(sr)
         d0 == [dom EXCEPT !.written = {}, !.attrWrites = {}]
         d1 == EffectsManager_apply(
                 ShapeManager_apply(ThemeManager_apply(d0, f), f), f)
         p  == AudioManager_play(a1, f)
     IN  /\ fields' = f
         /\ img' = i1
         /\ dom' = [d1 EXCEPT !.removed = Removed(dom, d1)]
         /\ audio' = p.audio
         /\ IF p.threw
            THEN /\ timeline' = timeline
                 /\ sr' = s1
                 /\ outcome' = "error"
            ELSE /\ timeline' = AnimationController_playIntro(timeline)
                 /\ sr' = AccessibilityManager_announce(s1, Announcement)
                 /\ outcome' = "complete"
  /\ passes' = passes + 1
  /\ UNCHANGED <<customFields, doc, errors, call, ret, now>>

\* The avatar element signals a load failure: its error listeners run.
ImgError ==
  /\ doc.avatar
  /\ errors < MaxErrors
  /\ errors' = errors + 1
  /\ img' = DispatchError(img, img.handlers)
  /\ UNCHANGED <<customFields, doc, fields, dom, audio, timeline, sr, passes,
                 outcome, call, ret, now>>

\* A timeout set by announce() has expired: its callback writes the message.
\* writes counts the message writes, gap is the time since the latest clear.
TimerFire ==
  /\ sr.timers # <<>>
  /\ Head(sr.timers).due <= now
  /\ sr' = [sr EXCEPT !.text = Head(sr.timers).message,
                      !.writes = @ + 1,
                      !.gap = now - sr.clearedAt,
                      !.timers = Tail(@)]
  /\ UNCHANGED <<customFields, doc, fields, dom, img, audio, timeline, passes,
                 errors, outcome, call, ret, now>>

\* Time passes, half the announcement delay at a step.
Tick ==
  /\ now < MaxTicks * (AnnounceDelay \div 2)
  /\ now' = now + (AnnounceDelay \div 2)
  /\ UNCHANGED <<customFields, doc, fields, dom, img, audio, timeline, sr,
                 passes, errors, outcome, call, ret>>

\* The promise returned by element.play() settles; the catch handler logs a
\* rejection with console.warn and nothing else.
PlaySettles ==
  /\ audio.pending > 0
  /\ \E fulfilled \in BOOLEAN :
       audio' = [audio EXCEPT !.pending = @ - 1,
                              !.warned = IF fulfilled THEN @ ELSE @ + 1]
  /\ UNCHANGED <<customFields, doc, fields, dom, img, timeline, sr, passes,
                 errors, outcome, call, ret, now>>

\* A direct call of the exported ConfigManager.get(key, fallback)
CallGet ==
  /\ call.fn = "get"
  /\ ret = Undefined
  /\ ret' = [v |-> ConfigManager_get(fields, call.key, call.fallback)]
  /\ UNCHANGED <<customFields, doc, fields, dom, img, audio, timeline, sr,
                 passes, errors, outcome, call, now>>

\* A direct call of getField(fields, key, fallback)
CallGetField ==
  /\ call.fn = "getField"
  /\ ret = Undefined
  /\ ret' = [v |-> getField(fields, call.key, call.fallback)]
  /\ UNCHANGED <<customFields, doc, fields, dom, img, audio, timeline, sr,
                 passes, errors, outcome, call, now>>

(***************************************************************************)
(* Documents and configurations                                            *)
(***************************************************************************)
Elements == {"frame", "avatarWrapper", "ring", "avatar", "sound", "sr",
             "leftZone", "rightZone"}

\* a document holding the elements of present, with or without anime.js,
\* the avatar carrying data-fallback = df (Undefined: no such attribute)
DocOf(present, an, df) ==
  [e \in Elements |-> e \in present] @@ [anime |-> an, dataFallback |-> df]

PrimarySrc == <<"h", "t", "t", "p", "s", ":", "/", "/", "c", "d", "n", ".", "e", "x", "a", "m", "p", "l", "e", "/", "u", "s", "e", "r", ".", "p", "n", "g">>

DataFallbacks == {
  Undefined,
  Str(<<"h", "t", "t", "p", "s", ":", "/", "/", "c", "d", "n", ".", "e", "x", "a", "m", "p", "l", "e", "/", "n", "o", "n", "e", ".", "g", "i", "f">>),
  Str(<<"f", "a", "l", "l", "b", "a", "c", "k", ".", "g", "i", "f">>)}

FullDoc == DocOf(Elements, TRUE, Undefined)

\* every element, all but one element, or no element
Documents ==
  {DocOf(P, an, df) :
     P \in {Elements, {}} \cup {Elements \ {x} : x \in Elements},
     an \in BOOLEAN, df \in DataFallbacks}

Fields(map) == [t |-> "object", map |-> map]

\* the characters generated configuration strings are made of
Alphabet == {" ", "-", "5", ".", "x"}

GenStrings == UNION {[1..n -> Alphabet] : n \in 0..MaxLen}

SampleStrings == {
  <<"t", "r", "u", "e">>,
  <<"f", "a", "l", "s", "e">>,
  <<" ", "t", "r", "u", "e", " ">>,
  <<"T", "R", "U", "E">>,
  <<"n", "o", "n", "e">>,
  <<"h", "e", "x", "a", "g", "o", "n">>,
  <<" ", "h", "e", "x", "a", "g", "o", "n", " ">>,
  <<"1", "6", ":", "9">>,
  <<"1", "e", "3">>,
  <<"I", "n", "f", "i", "n", "i", "t", "y">>,
  <<"-", "I", "n", "f", "i", "n", "i", "t", "y">>,
  <<"1", "2", ".", "5", "p", "x">>,
  <<"0", ".", "3", "0">>,
  <<"{">>,
  <<"}">>,
  <<"{", "a", "l", "e", "r", "t", "S", "o", "u", "n", "d", "}">>,
  <<"h", "t", "t", "p", "s", ":", "/", "/", "e", "x", "a", "m", "p", "l", "e", ".", "c", "o", "m", "/", "a", ".", "m", "p", "3">>}

SampleNumbers == {Num(0, 0), Num(2, 0), Num(-5, 0), Num(5000, 0), Num(25, 2),
                  Num(350, 0)}

\* the raw values a configuration key is given
RawValues ==
  {Undefined, Null, Bool(TRUE), Bool(FALSE)} \cup SampleNumbers
  \cup {Str(s) : s \in GenStrings \cup SampleStrings}

\* the keys the translators and the audio manager read
ReadKeys == (Keys \ {"scalingMode", "maxScale", "minScale", "gradientAngle",
                     "containerOpacity", "backgroundBlur", "avatarBorderColor",
                     "avatarBorderWidth", "introDuration", "introEasing",
                     "layoutDirection", "contentAlignment", "avatarPosition",
                     "contentGap", "fallbackImage"})

SoundUrl == Str(<<"h", "t", "t", "p", "s", ":", "/", "/", "e", "x", "a", "m", "p", "l", "e", ".", "c", "o", "m", "/", "a", ".", "m", "p", "3">>)

\* a few whole configurations
SampleConfigs == {
  EmptyFields,
  [EmptyFields EXCEPT !["alertSound"] = SoundUrl, !["soundVolume"] = Num(2, 0)],
  [EmptyFields EXCEPT !["alertSound"] = Str(<<"{", "a", "l", "e", "r", "t", "S", "o", "u", "n", "d", "}">>)],
  [EmptyFields EXCEPT !["alertSound"] = Num(5, 0)],
  [EmptyFields EXCEPT !["alertBoxShape"] = Str(<<" ", "h", "e", "x", "a", "g", "o", "n", " ">>),
                      !["maintainAspectRatio"] = Str(<<"1", "6", ":", "9">>),
                      !["glowEnabled"] = StrTrue,
                      !["enableSway"] = StrFalse,
                      !["enableRingSpin"] = Bool(TRUE),
                      !["containerBorderRadius"] = Num(0, 0),
                      !["avatarRingWidth"] = Str(<<"2">>)]}

Toggles == {Undefined, StrTrue, StrFalse}

\* one key given a raw value; a sound to play at every volume; the four
\* on/off keys in every combination
SweepConfigs ==
  {[EmptyFields EXCEPT ![k] = v] : k \in ReadKeys, v \in RawValues}
  \cup {[EmptyFields EXCEPT !["alertSound"] = SoundUrl, !["soundVolume"] = v] :
          v \in RawValues}
  \cup {[EmptyFields EXCEPT !["glowEnabled"] = g, !["enableSway"] = s,
                            !["enableRingSpin"] = r,
                            !["enableGradientAnimation"] = a] :
          g \in Toggles, s \in Toggles, r \in Toggles, a \in Toggles}

\* the configurations the host switches between: none, the samples, and every
\* combination of an aspect ratio, two on/off keys and a width
HostConfigs ==
  {Undefined} \cup {Fields(m) : m \in SampleConfigs}
  \cup {Fields([EmptyFields EXCEPT !["maintainAspectRatio"] = a,
                                   !["glowEnabled"] = g,
                                   !["enableSway"] = s,
                                   !["containerWidth"] = w]) :
          a \in {StrNone, Str(<<"1", "6", ":", "9">>)},
          g \in {StrTrue, StrFalse}, s \in {StrTrue, StrFalse},
          w \in {Undefined, Num(350, 0)}}

\* The host page assigns window.customFields between two passes.
HostSetsFields ==
  /\ \E cf \in HostConfigs : customFields' = cf
  /\ customFields' # customFields
  /\ UNCHANGED <<doc, fields, dom, img, audio, timeline, sr, passes, errors,
                 outcome, call, ret, now>>

(***************************************************************************)
(* Initial states and specifications                                       *)
(***************************************************************************)
\* no style variable, data attribute or class set yet
BlankDom ==
  [vars |-> [n \in VarNames |-> Undefined],
   frameData |-> [shape |-> Undefined, aspect |-> Undefined],
   wrapperData |-> [avatarShape |-> Undefined],
   frameClasses |-> {}, ringClasses |-> {},
   written |-> {}, attrWrites |-> {}, removed |-> {}]

\* the page as loaded, before init() has run
LoadedWith(d, cf, f) ==
  /\ doc = d
  /\ customFields = cf
  /\ fields = f
  /\ dom = BlankDom
  /\ img = [element |-> FALSE, fallbackSrc |-> DEFAULTS.fallbackImage.s,
            src |-> IF d.avatar THEN PrimarySrc ELSE <<>>,
            handlers |-> 0, srcWrites |-> 0]
  /\ audio = [element |-> FALSE, src |-> <<>>, volume |-> Num(1, 0),
              currentTime |-> 0, plays |-> 0, ops |-> <<>>,
              pending |-> 0, warned |-> 0]
  /\ timeline = [hidden |-> {}, runs |-> 0, stages |-> <<>>]
  /\ sr = [element |-> FALSE, text |-> "", timers |-> <<>>,
           clearedAt |-> 0, writes |-> 0, gap |-> 0]
  /\ now = 0
  /\ passes = 0
  /\ errors = 0
  /\ outcome = "none"

Loaded(d, cf) == LoadedWith(d, cf, EmptyFields)

NoCall == [fn |-> "none"]

\* the widget in any document, under a few configurations
Init ==
  /\ \E d \in Documents, cf \in {Undefined} \cup {Fields(m) : m \in SampleConfigs} :
       Loaded(d, cf)
  /\ call = NoCall
  /\ ret = Undefined

Next == RunInit \/ ImgError \/ PlaySettles

Spec == Init /\ [][Next]_vars

\* the document with and without the screen-reader element, and the clock:
\* passes at any step of it, timeouts firing once they are due
TimedDocuments == {FullDoc, DocOf(Elements \ {"sr"}, TRUE, Undefined)}

InitTime ==
  /\ \E d \in TimedDocuments,
        cf \in {Undefined} \cup {Fields(m) : m \in SampleConfigs} :
       Loaded(d, cf)
  /\ call = NoCall
  /\ ret = Undefined

NextTime == RunInit \/ TimerFire \/ Tick

SpecTime == InitTime /\ [][NextTime]_vars

\* the full document; the host changes the configuration between passes
InitLast ==
  /\ \E cf \in HostConfigs : Loaded(FullDoc, cf)
  /\ call = NoCall
  /\ ret = Undefined

NextLast == RunInit \/ HostSetsFields

SpecLast == InitLast /\ [][NextLast]_vars

\* the same, and the full document under the configurations of the sweep;
\* only init() and reinit() run
InitCfg ==
  /\ \/ \E m \in SweepConfigs : Loaded(FullDoc, Fields(m))
     \/ \E d \in Documents, cf \in {Undefined} \cup {Fields(m) : m \in SampleConfigs} :
          Loaded(d, cf)
  /\ call = NoCall
  /\ ret = Undefined

NextCfg == RunInit

SpecCfg == InitCfg /\ [][NextCfg]_vars

\* the accessor called directly after ConfigManager.init() has captured a
\* map holding one raw value
GetKeys == {"containerWidth", "glowEnabled", "alertSound"}

GetFallbacks == {Undefined, Null, Str(<<>>), Str(<<"f", "b">>), Num(0, 0), Num(7, 0)}

InitGet ==
  /\ \E k \in GetKeys, v \in RawValues, fb \in GetFallbacks, fn \in {"get", "getField"} :
       /\ LoadedWith(FullDoc, Fields([EmptyFields EXCEPT ![k] = v]),
                     [EmptyFields EXCEPT ![k] = v])
       /\ call = [fn |-> fn, key |-> k, fallback |-> fb]
  /\ ret = Undefined

NextGet == CallGet \/ CallGetField

SpecGet == InitGet /\ [][NextGet]_vars

(***************************************************************************)
(* Properties                                                              *)
(***************************************************************************)
\* the configuration map the latest pass read
Cfg == fields

\* absent, null, empty or only white space
Blank(v) ==
  \/ v = Undefined
  \/ v = Null
  \/ v.t = "str" /\ \A i \in 1..Len(v.s) : v.s[i] = " "

\* r is s without the white space around it
IsTrimOf(r, s) ==
  \E i \in 0..Len(s), j \in 0..Len(s) :
    /\ i + j <= Len(s)
    /\ r = SubSeq(s, i + 1, Len(s) - j)
    /\ \A k \in 1..i : s[k] = " "
    /\ \A k \in (Len(s) - j + 1)..Len(s) : s[k] = " "
    /\ r # <<>> => r[1] # " " /\ r[Len(r)] # " "

InRange(n, lo, hi) == n.t = "num" /\ ~Less(n, lo) /\ ~Less(hi, n)

\* the documented ranges: style variable, key, range, fallback
Ranges == {
  [var |-> "container-width", key |-> "containerWidth", lo |-> Num(300, 0), hi |-> Num(1600, 0), fb |-> Num(1000, 0)],
  [var |-> "container-height", key |-> "containerHeight", lo |-> Num(80, 0), hi |-> Num(400, 0), fb |-> Num(180, 0)],
  [var |-> "container-radius-outer", key |-> "containerBorderRadius", lo |-> Num(0, 0), hi |-> Num(100, 0), fb |-> Num(42, 0)],
  [var |-> "outline-width", key |-> "containerOutlineWidth", lo |-> Num(1, 0), hi |-> Num(30, 0), fb |-> Num(8, 0)],
  [var |-> "avatar-size", key |-> "avatarSize", lo |-> Num(60, 0), hi |-> Num(300, 0), fb |-> Num(150, 0)],
  [var |-> "avatar-ring-offset", key |-> "avatarRingWidth", lo |-> Num(2, 0), hi |-> Num(30, 0), fb |-> Num(10, 0)],
  [var |-> "sway-angle", key |-> "rotationAngle", lo |-> Num(0, 0), hi |-> Num(45, 0), fb |-> Num(25, 0)],
  [var |-> "sway-duration", key |-> "rotationSpeed", lo |-> Num(1, 0), hi |-> Num(20, 0), fb |-> Num(6, 0)],
  [var |-> "ring-spin-duration", key |-> "ringSpinSpeed", lo |-> Num(1, 0), hi |-> Num(20, 0), fb |-> Num(6, 0)],
  [var |-> "gradient-duration", key |-> "gradientAnimationSpeed", lo |-> Num(2, 0), hi |-> Num(20, 0), fb |-> Num(8, 0)],
  [var |-> "text-scale", key |-> "textScale", lo |-> Num(5, 1), hi |-> Num(2, 0), fb |-> Num(1, 0)],
  [var |-> "text-shadow-blur", key |-> "textShadowBlur", lo |-> Num(0, 0), hi |-> Num(30, 0), fb |-> Num(4, 0)],
  [var |-> "letter-spacing", key |-> "letterSpacing", lo |-> Num(-1, 1), hi |-> Num(3, 1), fb |-> Num(-2, 2)],
  [var |-> "shape-padding", key |-> "shapePadding", lo |-> Num(0, 0), hi |-> Num(60, 0), fb |-> Num(16, 0)],
  [var |-> "drop-shadow-x", key |-> "dropShadowOffsetX", lo |-> Num(-50, 0), hi |-> Num(50, 0), fb |-> Num(0, 0)],
  [var |-> "drop-shadow-y", key |-> "dropShadowOffsetY", lo |-> Num(0, 0), hi |-> Num(50, 0), fb |-> Num(12, 0)],
  [var |-> "drop-shadow-blur", key |-> "dropShadowBlur", lo |-> Num(0, 0), hi |-> Num(80, 0), fb |-> Num(24, 0)],
  [var |-> "drop-shadow-opacity", key |-> "dropShadowOpacity", lo |-> Num(0, 0), hi |-> Num(1, 0), fb |-> Num(4, 1)],
  [var |-> "glow-intensity", key |-> "glowIntensity", lo |-> Num(5, 0), hi |-> Num(60, 0), fb |-> Num(20, 0)]}

\* C1: after a pass, the number in every style variable of a key with a
\* documented range lies in that range or is the key's fallback, whatever the
\* key was given; and a volume set on the sound element lies in [0, 1].
C1_Clamped ==
  passes >= 1 =>
    /\ \A r \in Ranges :
         r.var \in dom.written =>
           LET n == ParseFloatStr(dom.vars[r.var].s)
           IN  InRange(n, r.lo, r.hi) \/ n = r.fb
    /\ audio.plays >= 1 =>
         InRange(audio.volume, Num(0, 0), Num(1, 0)) \/ audio.volume = Num(8, 1)

\* a width above the range was configured and the pass wrote the maximum
C1_Witness ==
  /\ passes >= 1
  /\ Cfg["containerWidth"] = Num(5000, 0)
  /\ dom.vars["container-width"] = Str(<<"1", "6", "0", "0", "p", "x">>)

\* C2 (as stated): however many load failures are signalled, the avatar's
\* source is assigned at most once.
C2_AtMostOneFallback == img.srcWrites <= 1

\* the string the alertSound key resolves to holds a character and no brace
SoundResolved ==
  /\ ~Blank(Cfg["alertSound"])
  /\ LET s == JSString(Cfg["alertSound"])
     IN  ~Includes(s, "{") /\ ~Includes(s, "}")

\* C3 (as stated): a pass requests playback exactly when the sound element
\* exists and the resolved source is non-empty and holds no brace; the volume
\* is then in [0, 1] and source, volume and position are set before play().
C3_PlaysIffResolved ==
  passes >= 1 =>
    /\ (audio.plays = passes) <=> (doc.sound /\ SoundResolved)
    /\ audio.plays \in {0, passes}
    /\ audio.plays >= 1 =>
         /\ InRange(audio.volume, Num(0, 0), Num(1, 0))
         /\ audio.currentTime = 0
         /\ SubSeq(audio.ops, Len(audio.ops) - 3, Len(audio.ops))
              = <<"src", "volume", "currentTime", "play">>

\* style variables, data attributes and classes
Presentation(d) ==
  <<d.vars, d.frameData, d.wrapperData, d.frameClasses, d.ringClasses>>

\* C4: a pass that follows a pass, configuration and document unchanged,
\* leaves every style variable, data attribute and class as it was.
C4_Idempotent ==
  [][(passes >= 1 /\ passes' = passes + 1)
       => Presentation(dom') = Presentation(dom)]_vars

\* two passes have run with the glow on and the sway off
C4_Witness ==
  /\ passes = 2
  /\ dom.frameClasses = {"alert-frame--glow", "alert-frame--no-sway"}
  /\ dom.frameData.aspect = Str(<<"1", "6", ":", "9">>)

\* the key was given a string that is not empty
ShapeGiven == Cfg["alertBoxShape"].t = "str" /\ Cfg["alertBoxShape"].s # <<>>

\* C5 (as stated): the frame's shape selector is the configured string itself.
C5_ExactString ==
  (passes >= 1 /\ doc.frame /\ ShapeGiven) =>
    dom.frameData.shape = Cfg["alertBoxShape"]

\* C5 (amended): the frame's shape selector is the configured string without
\* the white space around it, and "rounded-rectangle" when nothing is left.
C5_TrimmedString ==
  (passes >= 1 /\ doc.frame /\ ShapeGiven) =>
    /\ dom.frameData.shape.t = "str"
    /\ IF Blank(Cfg["alertBoxShape"])
       THEN dom.frameData.shape = Str(<<"r", "o", "u", "n", "d", "e", "d", "-", "r", "e", "c", "t", "a", "n", "g", "l", "e">>)
       ELSE IsTrimOf(dom.frameData.shape.s, Cfg["alertBoxShape"].s)

\* " hexagon " was configured and the frame is marked "hexagon"
C5_Witness ==
  /\ passes >= 1
  /\ Cfg["alertBoxShape"] = Str(<<" ", "h", "e", "x", "a", "g", "o", "n", " ">>)
  /\ dom.frameData.shape = Str(<<"h", "e", "x", "a", "g", "o", "n">>)

\* the style variables an empty configuration gives, from the Default Table
DefaultVars ==
  ("container-width" :> <<"1", "0", "0", "0", "p", "x">>) @@
  ("container-height" :> <<"1", "8", "0", "p", "x">>) @@
  ("container-radius-outer" :> <<"4", "2", "p", "x">>) @@
  ("container-radius-inner" :> <<"3", "4", "p", "x">>) @@
  ("outline-width" :> <<"8", "p", "x">>) @@
  ("container-1" :> <<"#", "7", "d", "1", "d", "f", "f">>) @@
  ("container-2" :> <<"#", "a", "8", "2", "b", "f", "f">>) @@
  ("container-3" :> <<"#", "5", "a", "1", "1", "c", "9">>) @@
  ("container-4" :> <<"#", "3", "f", "0", "a", "9", "b">>) @@
  ("avatar-size" :> <<"1", "5", "0", "p", "x">>) @@
  ("avatar-ring-offset" :> <<"1", "0", "p", "x">>) @@
  ("avatar-ring-width" :> <<"5", "p", "x">>) @@
  ("ring-1" :> <<"#", "f", "f", "9", "a", "1", "f">>) @@
  ("ring-2" :> <<"#", "f", "f", "5", "d", "f", "2">>) @@
  ("ring-3" :> <<"#", "7", "c", "2", "d", "f", "f">>) @@
  ("sway-angle" :> <<"2", "5", "d", "e", "g">>) @@
  ("sway-duration" :> <<"6", "s">>) @@
  ("ring-spin-duration" :> <<"6", "s">>) @@
  ("text-scale" :> <<"1">>) @@
  ("text-transform" :> <<"n", "o", "n", "e">>) @@
  ("font-family" :> <<"'", "U", "b", "u", "n", "t", "u", "'", ",", " ", "'", "U", "b", "u", "n", "t", "u", "'", ",", " ", "s", "y", "s", "t", "e", "m", "-", "u", "i", ",", " ", "s", "a", "n", "s", "-", "s", "e", "r", "i", "f">>) @@
  ("text-primary" :> <<"#", "0", "c", "0", "0", "1", "8">>) @@
  ("text-secondary" :> <<"#", "f", "4", "d", "8", "f", "f">>) @@
  ("text-shadow-color" :> <<"r", "g", "b", "a", "(", "0", ",", " ", "0", ",", " ", "0", ",", " ", "0", ".", "3", "5", ")">>) @@
  ("text-shadow-blur" :> <<"4", "p", "x">>) @@
  ("font-weight-primary" :> <<"9", "0", "0">>) @@
  ("font-weight-meta" :> <<"7", "0", "0">>) @@
  ("letter-spacing" :> <<"-", "0", ".", "0", "2", "e", "m">>) @@
  ("shape-padding" :> <<"1", "6", "p", "x">>) @@
  ("drop-shadow-enabled" :> <<"1">>) @@
  ("drop-shadow-x" :> <<"0", "p", "x">>) @@
  ("drop-shadow-y" :> <<"1", "2", "p", "x">>) @@
  ("drop-shadow-blur" :> <<"2", "4", "p", "x">>) @@
  ("drop-shadow-color" :> <<"#", "0", "0", "0", "0", "0", "0">>) @@
  ("drop-shadow-opacity" :> <<"0", ".", "4">>) @@
  ("glow-enabled" :> <<"0">>) @@
  ("glow-color" :> <<"#", "f", "f", "f", "f", "f", "f">>) @@
  ("glow-intensity" :> <<"2", "0", "p", "x">>) @@
  ("gradient-duration" :> <<"8", "s">>)

AllPresent == \A e \in Elements : doc[e]

\* C6: with an empty configuration and every element present, a pass leaves
\* every style variable at its Default Table value, the shape selector
\* "rounded-rectangle", no aspect attribute, and none of the glow, no-sway,
\* no-spin and no-gradient-animation classes.
C6_Defaults ==
  (passes >= 1 /\ AllPresent /\ \A k \in Keys : Cfg[k] = Undefined) =>
    /\ \A n \in VarNames : dom.vars[n] = Str(DefaultVars[n])
    /\ dom.frameData.shape = Str(<<"r", "o", "u", "n", "d", "e", "d", "-", "r", "e", "c", "t", "a", "n", "g", "l", "e">>)
    /\ dom.frameData.aspect = Undefined
    /\ dom.frameClasses = {}
    /\ dom.ringClasses = {}

\* a pass has run under the empty configuration in the full document
C6_Witness ==
  /\ passes >= 1
  /\ AllPresent
  /\ \A k \in Keys : Cfg[k] = Undefined
  /\ dom.written = VarNames

\* what the accessor returns for a value and the fallback in force
Accessed(val, fb, r) ==
  IF Blank(val) THEN r = fb
  ELSE IF val.t = "str" THEN r.t = "str" /\ IsTrimOf(r.s, val.s)
  ELSE r = val

\* C7 (as stated): the accessor returns the fallback for an absent, null or
\* blank value, the trimmed string for another string and any other value
\* unchanged; ConfigManager.get falls back to the Default Table entry exactly
\* when no fallback is passed.
C7_DefaultIffNoArgument ==
  ret # Undefined =>
    Accessed(Cfg[call.key],
             IF call.fn = "get" /\ call.fallback = Undefined
             THEN DefaultOf(call.key) ELSE call.fallback,
             ret.v)

\* C7 (amended): the same, ConfigManager.get falling back to the Default
\* Table entry exactly when the fallback passed is missing or null.
C7_DefaultIffNullish ==
  ret # Undefined =>
    Accessed(Cfg[call.key],
             IF call.fn = "get" /\ call.fallback \in {Undefined, Null}
             THEN DefaultOf(call.key) ELSE call.fallback,
             ret.v)

\* get(key, null) on a blank value returned the key's default
C7_Witness ==
  /\ ret # Undefined
  /\ call.fn = "get"
  /\ call.fallback = Null
  /\ Blank(Cfg[call.key])
  /\ ret.v = Num(1000, 0)

\* the stage of the latest timeline that animates target x
StageOf(x) ==
  timeline.stages[CHOOSE i \in 1..Len(timeline.stages) :
                    timeline.stages[i].params.targets = x]

StageEnd(st) == st.start + st.duration

\* C8 (as stated): frame first, then both content zones in one stage, then
\* the avatar, each stage starting 400ms before the end of the one before.
C8_ZonesTogether ==
  timeline.runs >= 1 =>
    /\ StageOf("leftZone").start = StageOf("rightZone").start
    /\ StageOf("leftZone").start = StageEnd(StageOf("frame")) - 400
    /\ StageOf("avatarWrapper").start = StageEnd(StageOf("leftZone")) - 400

\* C8 (amended): the stages are frame, left zone, avatar, right zone, in that
\* order, each starting 400ms before the end of the one before; the zones
\* slide in from opposite sides.
C8_FourStages ==
  timeline.runs >= 1 =>
    /\ [i \in 1..Len(timeline.stages) |-> timeline.stages[i].params.targets]
         = <<"frame", "leftZone", "avatarWrapper", "rightZone">>
    /\ timeline.stages[1].start = 0
    /\ \A i \in 2..Len(timeline.stages) :
         timeline.stages[i].start = StageEnd(timeline.stages[i - 1]) - 400
    /\ StageOf("leftZone").params.translateX[1]
         = -StageOf("rightZone").params.translateX[1]
    /\ StageOf("leftZone").params.translateX[1] # 0

\* playIntro has run: the right zone starts 800ms after the left zone
C8_Witness ==
  /\ timeline.runs >= 1
  /\ StageOf("leftZone").start = 200
  /\ StageOf("avatarWrapper").start = 600
  /\ StageOf("rightZone").start = 1000

\* the key's value is the string "true", white space around it aside
SaysTrue(key) ==
  Cfg[key].t = "str" /\ IsTrimOf(<<"t", "r", "u", "e">>, Cfg[key].s)

\* a feature that is on by default: on unless its key says otherwise
FeatureOn(key) == Blank(Cfg[key]) \/ SaysTrue(key)

\* C9: after a pass in a document with the frame and the ring, the glow class
\* is on the frame exactly when glowEnabled resolves to "true", and each of
\* the no-sway, no-spin and no-gradient-animation classes is on its element
\* exactly when its feature is off, a feature being on when its key is absent.
C9_Classes ==
  (passes >= 1 /\ doc.frame /\ doc.ring) =>
    /\ ("alert-frame--glow" \in dom.frameClasses) <=> SaysTrue("glowEnabled")
    /\ ("alert-frame--no-sway" \in dom.frameClasses) <=> ~FeatureOn("enableSway")
    /\ ("alert-avatar-ring--no-spin" \in dom.ringClasses)
         <=> ~FeatureOn("enableRingSpin")
    /\ ("alert-frame--no-gradient-animation" \in dom.frameClasses)
         <=> ~FeatureOn("enableGradientAnimation")

\* glow on, sway on by absence, spin and gradient animation off
C9_Witness ==
  /\ passes >= 1
  /\ Cfg["enableSway"] = Undefined
  /\ dom.frameClasses = {"alert-frame--glow", "alert-frame--no-gradient-animation"}
  /\ dom.ringClasses = {"alert-avatar-ring--no-spin"}

ThemeVars == {
  "container-width", "container-height", "container-radius-outer",
  "container-radius-inner", "outline-width",
  "container-1", "container-2", "container-3", "container-4",
  "avatar-size", "avatar-ring-offset", "avatar-ring-width",
  "ring-1", "ring-2", "ring-3",
  "sway-angle", "sway-duration", "ring-spin-duration",
  "text-scale", "text-transform", "font-family", "text-primary",
  "text-secondary", "text-shadow-color", "text-shadow-blur",
  "font-weight-primary", "font-weight-meta", "letter-spacing"}

EffectVars == {
  "drop-shadow-enabled", "drop-shadow-x", "drop-shadow-y", "drop-shadow-blur",
  "drop-shadow-color", "drop-shadow-opacity",
  "glow-enabled", "glow-color", "glow-intensity", "gradient-duration"}

\* C10: in a document without the frame, a pass sets no shape, aspect or
\* avatar-shape attribute and does not write shape-padding, and writes every
\* style variable of the theme and of the effects.
C10_ShapeSkipped ==
  (passes >= 1 /\ ~doc.frame) =>
    /\ dom.attrWrites = {}
    /\ dom.frameData = [shape |-> Undefined, aspect |-> Undefined]
    /\ dom.wrapperData = [avatarShape |-> Undefined]
    /\ "shape-padding" \notin dom.written
    /\ dom.vars["shape-padding"] = Undefined
    /\ dom.written = ThemeVars \cup EffectVars
    /\ \A n \in ThemeVars \cup EffectVars : dom.vars[n] # Undefined

\* a pass has run with the avatar wrapper but no frame
C10_Witness ==
  /\ passes >= 1
  /\ ~doc.frame
  /\ doc.avatarWrapper
  /\ "glow-intensity" \in dom.written
  /\ "letter-spacing" \in dom.written

\* C11: every write of the announcement message to the screen-reader element
\* happens at least 100ms after the most recent clearing of its text, and no
\* pass gives rise to more than one message write, done or still to come.
C11_WriteAfterClear ==
  /\ sr.writes > 0 => sr.gap >= AnnounceDelay
  /\ sr.writes + Len(sr.timers) <= passes

\* C12: every pass completes and issues the announcement, whatever the
\* animation engine, the animation targets and the settling of the play
\* request are; a rejected play request is logged and changes nothing else.
C12_PassCompletes ==
  passes > 0 =>
    /\ outcome = "complete"
    /\ doc.sr => Len(sr.timers) = passes

\* what one pass with configuration f makes of the blank page
Rendered(f) ==
  EffectsManager_apply(ShapeManager_apply(ThemeManager_apply(BlankDom, f), f), f)

\* C13: in the full document, whatever configurations the earlier passes ran
\* with, the style variables, data attributes and classes after a pass are
\* those the configuration of that pass alone gives.
C13_LastConfigurationWins ==
  passes >= 1 => Presentation(dom) = Presentation(Rendered(fields))

\* the second pass found the aspect attribute and the glow class set by the
\* first and removed both
C13_Witness ==
  /\ passes = 2
  /\ {"aspect", "alert-frame--glow"} \subseteq dom.removed
  /\ dom.frameData.aspect = Undefined
  /\ "alert-frame--glow" \notin dom.frameClasses
  /\ Get(fields, "maintainAspectRatio") = StrNone

=============================================================================
